---------------------------- MODULE Spec2Model ----------------------------
(***************************************************************************)
(* Model of the optikon-dns `edge` plugin: the query engine Edge.ServeDNS  *)
(* (src/optikon-dns/plugin/edge/edge.go), the upstream proxies            *)
(* (connect.go) and the selection policies.                                *)
(*                                                                         *)
(* One request is served at a time, step by step, while the health probes  *)
(* (Proxy.Check) run concurrently and change the failure counters between  *)
(* any two steps of the request.                                           *)
(***************************************************************************)
EXTENDS Integers, Sequences, FiniteSets, TLC

(***************************************************************************)
(* Bounds of the model.                                                    *)
(***************************************************************************)
\* Largest number of configured upstream proxies.
MaxProxies == 2
\* Largest value the model lets a failure counter reach by failed probes.
MaxFailCount == 2

\* Largest value of the round-robin counter at which a request is still taken.
MaxRobin == 3
\* Largest number of proxies where the 32-bit counters are taken near their wrap.
PoolLen == 3
MaxCallers == 2

\* edge.go:44
defaultMaxUpstreamFails == 2

(***************************************************************************)
(* The atomic counters are uint32 (roundRobin.robin at edge.go:461,        *)
(* Proxy.fails).  A uint32 is kept as the pair <<high half, low half>> of  *)
(* its 16-bit halves, so that 2^32 - 1 and the wrap to zero are values of  *)
(* the model.                                                              *)
(***************************************************************************)
Half == 65536

U32(n) == <<n \div Half, n % Half>>

\* atomic.AddUint32(&x, 1)
U32Inc(x) ==
  IF x[2] + 1 < Half
    THEN <<x[1], x[2] + 1>>
    ELSE <<(x[1] + 1) % Half, 0>>

\* 2^32 - 1 - k, for a small k
U32Top(k) == <<Half - 1, Half - 1 - k>>

\* A count of events, which does not wrap: <<hi, lo>> is hi * 2^16 + lo and
\* hi is not bounded by 2^16.
CountInc(c) ==
  IF c[2] + 1 < Half
    THEN <<c[1], c[2] + 1>>
    ELSE <<c[1] + 1, 0>>

\* x % n for a small n > 0
U32Rem(x, n) == ((x[1] % n) * (Half % n) + (x[2] % n)) % n

\* x >= k and x < k for a small k
U32Ge(x, k) == x[1] > 0 \/ x[2] >= k
U32Lt(x, k) == ~U32Ge(x, k)

(***************************************************************************)
(* Strings are sequences of characters, so that trimming, lower-casing and *)
(* label splitting are computed and not assumed.                           *)
(***************************************************************************)
ToLower(s) == [i \in DOMAIN s |-> IF s[i] = "A" THEN "a" ELSE s[i]]

\* edge.go:361-366
trimTrailingDot(s) ==
  IF s = <<>> \/ s[Len(s)] # "."
    THEN s
    ELSE SubSeq(s, 1, Len(s) - 1)

RECURSIVE SplitLabels(_, _)
SplitLabels(s, cur) ==
  IF s = <<>>
    THEN IF cur = <<>> THEN <<>> ELSE <<cur>>
    ELSE IF Head(s) = "."
      THEN (IF cur = <<>> THEN <<>> ELSE <<cur>>) \o SplitLabels(Tail(s), <<>>)
      ELSE SplitLabels(Tail(s), Append(cur, Head(s)))

\* The labels of a domain name, leftmost first; the root "." has none.
Labels(s) == SplitLabels(ToLower(s), <<>>)

\* dns.IsSubDomain: the labels of parent are the rightmost labels of child.
IsSubDomain(parent, child) ==
  LET pl == Labels(parent)
      cl == Labels(child)
  IN  /\ Len(pl) <= Len(cl)
      /\ SubSeq(cl, Len(cl) - Len(pl) + 1, Len(cl)) = pl

\* plugin.Name(n).Matches(child), as called at edge.go:371 and edge.go:383.
NameMatches(n, child) == n = child \/ IsSubDomain(n, child)

\* Query names the clients and peers send (Question[0].Name, fully qualified).
QueryNames ==
  { <<".">>,
    <<"a", ".">>,
    <<"A", ".">>,
    <<"b", ".">>,
    <<"a", "b", ".">>,
    <<"a", ".", "b", ".">> }

\* request.Request.Name(): the lower-cased query name.
StateName(st) == ToLower(st.qname)

(***************************************************************************)
(* Addresses, points and sites.                                            *)
(***************************************************************************)
NilIP == [v |-> 0, a |-> "nil"]
OwnIP4 == [v |-> 4, a |-> "172.16.7.102"]
OwnIP6 == [v |-> 6, a |-> "2001:db8::102"]

\* net.IP.To4 (edge.go:331): nil for an address that is not IPv4.
To4(addr) == IF addr.v = 4 THEN addr ELSE NilIP

\* Points <<latitude, longitude>> in degrees.
P0 == <<0, 0>>
P60 == <<60, 15>>
P55 == <<55, 13>>
P59 == <<59, 14>>
Points == {P0, P60, P55, P59}

\* Point.GreatCircleDistance in km on the points of the model.
GreatCircleDistance(p, q) ==
  LET pair == {p, q}
  IN  IF p = q THEN 0
      ELSE IF pair = {P0, P60} THEN 6796
      ELSE IF pair = {P0, P55} THEN 6229
      ELSE IF pair = {P0, P59} THEN 6674
      ELSE IF pair = {P60, P55} THEN 569
      ELSE IF pair = {P60, P59} THEN 125
      ELSE 449

\* edge.go:54-57
Site(addr, pt) == [IP |-> addr, GeoCoords |-> pt]
Site1 == Site([v |-> 4, a |-> "1.1.1.1"], P0)
Site2 == Site([v |-> 4, a |-> "2.2.2.2"], P60)
Site3 == Site([v |-> 4, a |-> "3.3.3.3"], P60)
Site6 == Site([v |-> 6, a |-> "2001:db8::6"], P59)
Sites == {Site1, Site2, Site3, Site6}

(***************************************************************************)
(* DNS messages.  The additional section is a sequence of records; a LOC   *)
(* record carries a point.                                                 *)
(***************************************************************************)
OptRR == [type |-> "OPT"]
LocRR(pt) == [type |-> "LOC", pt |-> pt]
IsLoc(rr) == rr.type = "LOC"

\* Number of LOC records of an additional section.
NumLoc(extra) == Cardinality({i \in DOMAIN extra : IsLoc(extra[i])})


\* The message as received: question name and additional section.
Msg(qname, extra) == [qname |-> qname, extra |-> extra]

\* extractLocationRecord (called at edge.go:178): the first LOC record of the
\* additional section is decoded and removed from the message in place.
RECURSIVE FirstLoc(_, _)
FirstLoc(extra, i) ==
  IF i > Len(extra) THEN 0
  ELSE IF IsLoc(extra[i]) THEN i
  ELSE FirstLoc(extra, i + 1)

RemoveAt(s, i) == SubSeq(s, 1, i - 1) \o SubSeq(s, i + 1, Len(s))

extractLocationRecord(msg) ==
  LET i == FirstLoc(msg.extra, 1)
  IN  IF i = 0
        THEN [msg |-> msg, loc |-> <<0, 0>>, found |-> FALSE]
        ELSE [msg |-> [msg EXCEPT !.extra = RemoveAt(msg.extra, i)],
              loc |-> msg.extra[i].pt, found |-> TRUE]

\* insertLocationRecord (called at edge.go:221): appends to the additional section.
insertLocationRecord(msg, rr) == [msg EXCEPT !.extra = Append(msg.extra, rr)]

(***************************************************************************)
(* State.                                                                  *)
(***************************************************************************)
VARIABLES
  env,       \* the requests the clients and peers of this run send
  e,         \* the Edge struct (edge.go:60-121): configuration, services, table
  fails,     \* Proxy.fails of every proxy of e.proxies
  streak,    \* per proxy, the failed Checks since its last successful Check
  heads,     \* the heads of the lists roundRobin.List returned, in order
  robin,     \* roundRobin.robin
  pc,        \* position of the request in ServeDNS
  state,     \* request.Request of the request being served
  r,         \* the message r (state.Req points to it; it is changed in place)
  fr,        \* the local variables of ServeDNS
  ret,       \* what ServeDNS returned
  w,         \* the messages written to the dns.ResponseWriter
  observed,  \* the results of proxy.Down() seen by the request, in order
  attempts,  \* the calls of proxy.connect made by the request, in order
  hcs,       \* the proxies on which the request called Healthcheck(), in order
  fpc,       \* position of the call of Forward
  freq,      \* the receiver of the call (nil or not) and the message of its state
  f,         \* the local variables of Forward
  out,       \* what Forward returned
  fobserved, \* the results of proxy.Down() seen by the call, in order
  fattempts, \* the calls of proxy.connect made by the call, in order
  lcalls,    \* the concurrent calls of the policy's List: position, counter value, result
  lbase      \* the round-robin counter before the first of these calls

\* The variables of a call of ServeDNS and those of a call of Forward.
srvVars == <<pc, state, r, fr, ret, w, observed, attempts, hcs>>
fwdVars == <<fpc, freq, f, out, fobserved, fattempts>>

listVars == <<lcalls, lbase>>

vars == <<env, e, fails, streak, heads, robin, srvVars, fwdVars, listVars>>

NoErr == "nil"

\* The goroutines that call the policy's List at the same time, and a call
\* that has not started.
Callers == 1..MaxCallers
NoList == [pc |-> "idle", i |-> U32(0), list |-> <<>>]
NoListCall == \A c \in Callers : lcalls[c].pc = "idle"
NoMsg == [kind |-> "nil"]

\* The count is one too high.
NumUpstreams_counted == Len(e.proxies) + 1

\* edge.go:141
NumUpstreams == Len(e.proxies)

\* ConcurrentServiceTable.Lookup (called at edge.go:196): the set and whether
\* the key is present; an absent key yields the empty set.
Lookup(name) ==
  IF name \in DOMAIN e.table
    THEN [sites |-> e.table[name], found |-> TRUE]
    ELSE [sites |-> {}, found |-> FALSE]

\* Proxy.Down (called at edge.go:233): failure counter >= threshold; a threshold
\* of zero means always up.
Down(p, maxfails) == maxfails # 0 /\ U32Ge(fails[p], maxfails)

\* An ignored list that is applied to the base domain too.
isAllowedDomain_noBase(name) ==
  ~ \E i \in DOMAIN e.ignored : NameMatches(e.ignored[i], name)

\* edge.go:378-388
isAllowedDomain(name) ==
  IF name = e.baseDomain
    THEN TRUE
    ELSE ~ \E i \in DOMAIN e.ignored : NameMatches(e.ignored[i], name)

\* A filter that forgets the ignored list.
match_noIgnored(st) == NameMatches(e.baseDomain, StateName(st))

\* edge.go:369-375
match(st) ==
  IF ~NameMatches(e.baseDomain, StateName(st)) \/ ~isAllowedDomain(StateName(st))
    THEN FALSE
    ELSE TRUE

\* edge.go:317-341 (the reply handed to state.W.WriteMsg)
writeAuthoritativeResponse(st, addr) ==
  [kind |-> "auth", authoritative |-> TRUE, compress |-> TRUE,
   answer |-> << IF st.family = 1
                   THEN [type |-> "A", name |-> st.qname, addr |-> To4(addr)]
                   ELSE [type |-> "AAAA", name |-> st.qname, addr |-> addr] >>]

\* edge.go:344-358, on the order in which the set is iterated.
RECURSIVE closestFrom(_, _, _, _, _)
closestFrom(order, p, closest, minDist, first) ==
  IF order = <<>> THEN closest
  ELSE LET edgeSite == Head(order)
           dist == GreatCircleDistance(p, edgeSite.GeoCoords)
       IN  IF first \/ dist < minDist
             THEN closestFrom(Tail(order), p, edgeSite.IP, dist, FALSE)
             ELSE closestFrom(Tail(order), p, closest, minDist, first)

findClosestToPoint(order, p) == closestFrom(order, p, NilIP, 0, TRUE)

\* The orders in which a set can be iterated.
Orders(S) ==
  {s \in [1..Cardinality(S) -> S] : \A x \in S : \E i \in DOMAIN s : s[i] = x}

\* edge.go:441-457: the lists random.List can return.
randomList(p) ==
  IF Len(p) = 1 THEN {p}
  ELSE IF Len(p) = 2 THEN {<<p[2], p[1]>>, p}
  ELSE {[i \in DOMAIN p |-> p[perm[i]]] : perm \in Orders(DOMAIN p)}

\* The head is taken one place too far.
roundRobinList_next(p, c) ==
  LET i == U32Rem(U32Inc(c), Len(p))
  IN  <<p[i + 1]>> \o SubSeq(p, 1, i) \o SubSeq(p, i + 2, Len(p))

\* edge.go:468-475: the list roundRobin.List returns once the counter has the
\* value c (indices of p start at 1 here, at 0 in Go).
roundRobinList(p, c) ==
  LET i == U32Rem(c, Len(p))
  IN  <<p[i + 1]>> \o SubSeq(p, 1, i) \o SubSeq(p, i + 2, Len(p))


(***************************************************************************)
(* One call of Proxy.connect.  What the network does is the outcome: the   *)
(* dial fails, the write fails, the read fails (EOF or another error), or  *)
(* a reply is read, whose question matches the request or not and which is *)
(* flagged truncated or not.                                               *)
(***************************************************************************)
Outcomes ==
  {"dial_err", "write_err", "read_eof", "read_err",
   "reply_ok", "reply_mismatch", "reply_tc"}

Replies == {"reply_ok", "reply_mismatch", "reply_tc"}

EOF == "EOF"

\* lookup.go: the sentinel errors of Forward.
errNoEdge == "no edge defined"
errNoHealthy == "no healthy proxies"

\* The runtime error of an integer division by zero.
DivideByZero == "integer divide by zero"

Reply(p, outcome) ==
  [kind |-> "reply", from |-> p, matches |-> outcome # "reply_mismatch",
   tc |-> outcome = "reply_tc", compress |-> FALSE, scrubbed |-> FALSE]

\* connect.go:35-38: the protocol of the connection asked of Dial.
Proto(stateProto, forceTCP) == IF forceTCP THEN "tcp" ELSE stateProto

\* The connection is kept, neither closed nor yielded, when the read fails.
connect_leaky(p, msg, proto, outcome) ==
  IF outcome = "dial_err"
    THEN [proxy |-> p, proto |-> proto, dialed |-> FALSE, written |-> NoMsg,
          closed |-> FALSE, yielded |-> FALSE, ops |-> <<"Dial">>,
          res |-> NoMsg, err |-> "dial"]
  ELSE IF outcome = "write_err"
    THEN [proxy |-> p, proto |-> proto, dialed |-> TRUE, written |-> msg,
          closed |-> TRUE, yielded |-> FALSE,
          ops |-> <<"Dial", "WriteMsg", "Close">>,
          res |-> NoMsg, err |-> "write"]
  ELSE IF outcome \in {"read_eof", "read_err"}
    THEN [proxy |-> p, proto |-> proto, dialed |-> TRUE, written |-> msg,
          closed |-> FALSE, yielded |-> FALSE,
          ops |-> <<"Dial", "WriteMsg", "ReadMsg">>,
          res |-> NoMsg,
          err |-> IF outcome = "read_eof" THEN EOF ELSE "timeout"]
  ELSE [proxy |-> p, proto |-> proto, dialed |-> TRUE, written |-> msg,
        closed |-> FALSE, yielded |-> TRUE,
        ops |-> <<"Dial", "WriteMsg", "ReadMsg", "Yield">>,
        res |-> Reply(p, outcome), err |-> NoErr]

\* connect.go:33-67: what the call did (on the connection: ops), wrote and
\* returned.
connect(p, msg, proto, outcome) ==
  IF outcome = "dial_err"
    THEN [proxy |-> p, proto |-> proto, dialed |-> FALSE, written |-> NoMsg,
          closed |-> FALSE, yielded |-> FALSE, ops |-> <<"Dial">>,
          res |-> NoMsg, err |-> "dial"]
  ELSE IF outcome = "write_err"
    THEN [proxy |-> p, proto |-> proto, dialed |-> TRUE, written |-> msg,
          closed |-> TRUE, yielded |-> FALSE,
          ops |-> <<"Dial", "WriteMsg", "Close">>,
          res |-> NoMsg, err |-> "write"]
  ELSE IF outcome \in {"read_eof", "read_err"}
    THEN [proxy |-> p, proto |-> proto, dialed |-> TRUE, written |-> msg,
          closed |-> TRUE, yielded |-> FALSE,
          ops |-> <<"Dial", "WriteMsg", "ReadMsg", "Close">>,
          res |-> NoMsg,
          err |-> IF outcome = "read_eof" THEN EOF ELSE "timeout"]
  ELSE [proxy |-> p, proto |-> proto, dialed |-> TRUE, written |-> msg,
        closed |-> FALSE, yielded |-> TRUE,
        ops |-> <<"Dial", "WriteMsg", "ReadMsg", "Yield">>,
        res |-> Reply(p, outcome), err |-> NoErr]

\* truncated (called at edge.go:265 and lookup.go:52) maps the pair (reply,
\* error) of connect to a pair (reply, error): a truncation error that comes
\* with a message becomes that message flagged truncated; every other pair is
\* returned as it is.
truncated(res, err) ==
  IF err # "truncated" THEN [res |-> res, err |-> err]
  ELSE IF res # NoMsg THEN [res |-> [res EXCEPT !.tc = TRUE], err |-> NoErr]
  ELSE [res |-> res, err |-> err]

\* Every reply is taken as matching.
Match_always(res) == TRUE

\* request.Request.Match (called at edge.go:280)
Match(res) == res.matches

\* request.Request.ErrorMessage(dns.RcodeFormatError) (called at edge.go:281)
FormErr == [kind |-> "error", rcode |-> 1]

(***************************************************************************)
(* Initial states: the engine as configured, no request in progress.       *)
(***************************************************************************)
\* Forward: no call, the local variables before the loop, nothing returned.
NoCall == [nil |-> FALSE, proto |-> "udp", msg |-> NoMsg]
FFrame0 ==
  [order |-> <<>>, i |-> 0, fails |-> 0, proxy |-> 0,
   ret |-> NoMsg, err |-> NoErr, upstreamErr |-> NoErr]
NoOut == [msg |-> NoMsg, err |-> "none"]

Frame0 ==
  [loc |-> <<0, 0>>, locFound |-> FALSE, requestedService |-> <<>>,
   order |-> <<>>, i |-> 0, fails |-> 0, proxy |-> 0, stop |-> FALSE,
   res |-> NoMsg, err |-> NoErr, upstreamErr |-> NoErr]

Edge(base, ign, svcs, tbl, addr, pt, n, pol, maxf, tcp) ==
  [forceTCP |-> tcp, baseDomain |-> base, ignored |-> ign, services |-> svcs, table |-> tbl,
   ip |-> addr, geoCoords |-> pt, locRR |-> LocRR(pt),
   proxies |-> [i \in 1..n |-> i], policy |-> pol, maxUpstreamFails |-> maxf]

svcA == <<"a">>
svcB == <<"b">>

Table(S) == [k \in {svcB} |-> S]
NoTable == [k \in {} |-> {}]

\* The requests of a run: query names, client address families (1: IPv4,
\* 2: IPv6, request.Request.Family) and additional sections.
Env(names, families, extras, outcomes, protos) ==
  [names |-> names, families |-> families, extras |-> extras,
   outcomes |-> outcomes, protos |-> protos]

InitRequest ==
  /\ streak = fails
  /\ lcalls = [c \in Callers |-> NoList]
  /\ lbase = U32(0)
  /\ heads = <<>>
  /\ fpc = "idle"
  /\ freq = NoCall
  /\ f = FFrame0
  /\ out = NoOut
  /\ fobserved = <<>>
  /\ fattempts = <<>>
  /\ pc = "idle"
  /\ state = [qname |-> <<".">>, family |-> 1, proto |-> "udp", received |-> Msg(<<".">>, <<>>)]
  /\ r = Msg(<<".">>, <<>>)
  /\ fr = Frame0
  /\ ret = [rcode |-> "none", err |-> NoErr]
  /\ w = <<>>
  /\ observed = <<>>
  /\ attempts = <<>>
  /\ hcs = <<>>

\* Configurations that vary the filter.
InitFilter ==
  /\ \E base \in {<<".">>, <<"b", ".">>},
        ign \in {<<>>, <<<<"b", ".">>>>, <<<<"a", ".", "b", ".">>, <<".">>>>} :
       e = Edge(base, ign, {svcA, <<"a", ".", "b">>}, Table({Site1, Site2}),
                OwnIP4, P55, 1, "random", defaultMaxUpstreamFails, FALSE)
  /\ fails = [p \in 1..1 |-> U32(0)]
  /\ env = Env(QueryNames, {1}, {<<>>, <<LocRR(P59)>>}, Outcomes, {"udp"})
  /\ robin = U32(0)
  /\ InitRequest

\* Configurations that vary the local services, the table and the addresses.
InitAnswer ==
  /\ \E svcs \in SUBSET {svcA, svcB},
        tbl \in {NoTable} \cup {Table(S) : S \in SUBSET Sites},
        addr \in {OwnIP4, OwnIP6} :
       e = Edge(<<".">>, <<>>, svcs, tbl, addr, P55, 1, "random",
                defaultMaxUpstreamFails, FALSE)
  /\ fails = [p \in 1..1 |-> U32(0)]
  /\ env = Env({<<"a", ".">>, <<"A", ".">>, <<"b", ".">>}, {1, 2},
             {<<>>, <<LocRR(P59)>>, <<OptRR, LocRR(P0)>>}, Outcomes, {"udp"})
  /\ robin = U32(0)
  /\ InitRequest

\* Configurations that vary the upstream proxies, the policy and max_fails.
InitForward ==
  /\ \E n \in 0..MaxProxies, pol \in {"random", "round_robin"}, maxf \in {0, 1, defaultMaxUpstreamFails} :
       /\ e = Edge(<<".">>, <<<<"a", "b", ".">>>>, {svcA}, Table({Site1}),
                   OwnIP4, P55, n, pol, maxf, FALSE)
       /\ fails \in [1..n -> {U32(k) : k \in 0..MaxFailCount}]
  /\ env = Env({<<"a", ".">>, <<"b", ".">>, <<"a", ".", "b", ".">>}, {1},
             {<<>>, <<OptRR, LocRR(P59)>>}, Outcomes, {"udp"})
  /\ robin = U32(0)
  /\ InitRequest

\* Configurations at the ends of the range of the 32-bit counters: up to
\* three proxies under round robin, the round-robin counter and the failure counter
\* of the first proxy at zero or two steps before 2^32 (after that many List
\* calls, resp. failed Checks in a row).
InitCounters ==
  /\ \E n \in 1..PoolLen :
       /\ e = Edge(<<".">>, <<>>, {svcA}, Table({Site1}), OwnIP4, P55, n,
                   "round_robin", defaultMaxUpstreamFails, FALSE)
       /\ fails \in [1..n -> {U32(0), U32Top(1)}]
       /\ \A p \in 2..n : fails[p] = U32(0)
  /\ env = Env({<<"a", ".">>, <<"b", ".">>, <<"a", "b", ".">>}, {1}, {<<>>},
             {"read_err", "reply_ok"}, {"udp"})
  /\ robin \in {U32(0), U32Top(1)}
  /\ InitRequest

\* Configurations that vary the transport: clients over UDP and over TCP,
\* force_tcp set or not, proxies that answer with truncated replies.
InitTransport ==
  /\ \E n \in 1..MaxProxies, tcp \in BOOLEAN :
       /\ e = Edge(<<".">>, <<>>, {svcA}, Table({Site1}), OwnIP4, P55, n,
                   "random", defaultMaxUpstreamFails, tcp)
       /\ fails = [p \in 1..n |-> U32(0)]
  /\ env = Env({<<"a", ".">>, <<"b", ".">>, <<"a", "b", ".">>}, {1}, {<<>>},
             Outcomes, {"udp", "tcp"})
  /\ robin = U32(0)
  /\ InitRequest

Init == InitFilter \/ InitAnswer \/ InitForward \/ InitCounters \/ InitTransport


(***************************************************************************)
(* The environment: a request arrives (from a client, with no LOC record,  *)
(* or relayed by a peer engine, with the peer's LOC record), and the probe *)
(* loops run.                                                              *)
(***************************************************************************)
Receive ==
  /\ pc = "idle"
  /\ fpc = "idle"
  /\ NoListCall
  /\ U32Lt(robin, MaxRobin) \/ robin[1] = Half - 1
  /\ \E qname \in env.names, family \in env.families, extra \in env.extras,
        proto \in env.protos :
       /\ state' = [qname |-> qname, family |-> family, proto |-> proto,
                    received |-> Msg(qname, extra)]
       /\ r' = Msg(qname, extra)
  /\ pc' = "filter"
  /\ fr' = Frame0
  /\ ret' = [rcode |-> "none", err |-> NoErr]
  /\ w' = <<>>
  /\ observed' = <<>>
  /\ attempts' = <<>>
  /\ hcs' = <<>>
  /\ UNCHANGED <<env, e, fails, streak, heads, robin>>
  /\ UNCHANGED <<fwdVars, listVars>>

\* ServeDNS has returned: the request and its local variables are gone.
Finish ==
  /\ pc = "done"
  /\ pc' = "idle"
  /\ state' = [qname |-> <<".">>, family |-> 1, proto |-> "udp", received |-> Msg(<<".">>, <<>>)]
  /\ r' = Msg(<<".">>, <<>>)
  /\ fr' = Frame0
  /\ ret' = [rcode |-> "none", err |-> NoErr]
  /\ w' = <<>>
  /\ observed' = <<>>
  /\ attempts' = <<>>
  /\ hcs' = <<>>
  /\ UNCHANGED <<env, e, fails, streak, heads, robin>>
  /\ UNCHANGED <<fwdVars, listVars>>

\* The proxies an engine of the model can have.
ProxyIds == 1..(IF MaxProxies > PoolLen THEN MaxProxies ELSE PoolLen)

\* connect.go:101-109: one probe of proxy p, which fails or succeeds.
Check(p) ==
  /\ p \in DOMAIN fails
  /\ \/ /\ U32Lt(fails[p], MaxFailCount) \/ fails[p][1] = Half - 1
        /\ fails' = [fails EXCEPT ![p] = U32Inc(fails[p])]
        /\ streak' = [streak EXCEPT ![p] = CountInc(streak[p])]
     \/ /\ fails' = [fails EXCEPT ![p] = U32(0)]
        /\ streak' = [streak EXCEPT ![p] = U32(0)]
  /\ UNCHANGED <<env, e, heads, robin, pc, state, r, fr, ret, w, observed, attempts, hcs>>
  /\ UNCHANGED <<fwdVars, listVars>>

(***************************************************************************)
(* Edge.ServeDNS, edge.go:159-314, in steps.                               *)
(***************************************************************************)
Return(rcode, err) ==
  /\ ret' = [rcode |-> rcode, err |-> err]
  /\ pc' = "done"

\* plugin.NextOrFailure (edge.go:171, 217, 313): the next plugin serves the request.
NextOrFailure == Return("Next", NoErr)

\* The reply is written, and written again.
WriteMsg_twice(sent, m) == Append(Append(sent, m), m)

\* w.WriteMsg (edge.go:283, 295 and 340): one more message sent to the client.
WriteMsg(sent, m) == Append(sent, m)

\* new(dns.Msg), edge.go:175 and edge.go:249
NewMsg == [kind |-> "new"]

\* edge.go:167-175
ServeDNS_Filter ==
  /\ pc = "filter"
  /\ IF ~match(state)
       THEN NextOrFailure /\ UNCHANGED fr
       ELSE /\ fr' = [fr EXCEPT !.res = NewMsg]
            /\ pc' = "local"
            /\ UNCHANGED ret
  /\ UNCHANGED <<env, e, fails, streak, heads, robin, state, r, w, observed, attempts, hcs>>
  /\ UNCHANGED <<fwdVars, listVars>>

\* The origin of the request is not looked at.
answersLocally_anyOrigin(found, service) == service \in e.services

\* edge.go:186: the request came from a client (no LOC record was found) and
\* asks for a service that runs on this cluster.
answersLocally(found, service) == ~found /\ service \in e.services

\* edge.go:175-192
ServeDNS_Local ==
  /\ pc = "local"
  /\ LET x == extractLocationRecord(r)
         requestedService == trimTrailingDot(StateName(state))
     IN  /\ r' = x.msg
         /\ fr' = [fr EXCEPT !.loc = x.loc, !.locFound = x.found,
                             !.requestedService = requestedService]
         /\ IF answersLocally(x.found, requestedService)
              THEN /\ w' = WriteMsg(w, writeAuthoritativeResponse(state, e.ip))
                   /\ Return("Success", NoErr)
              ELSE /\ pc' = "table"
                   /\ UNCHANGED <<w, ret>>
  /\ UNCHANGED <<env, e, fails, streak, heads, robin, state, observed, attempts, hcs>>
  /\ UNCHANGED <<fwdVars, listVars>>

\* edge.go:194-209
ServeDNS_Table ==
  /\ pc = "table"
  /\ LET lk == Lookup(fr.requestedService)
     IN  IF lk.found /\ Cardinality(lk.sites) > 0
           THEN \E order \in Orders(lk.sites) :
                  LET closest == IF fr.locFound
                                   THEN findClosestToPoint(order, fr.loc)
                                   ELSE findClosestToPoint(order, e.geoCoords)
                  IN  /\ w' = WriteMsg(w, writeAuthoritativeResponse(state, closest))
                      /\ Return("Success", NoErr)
           ELSE /\ pc' = "upstreams"
                /\ UNCHANGED <<w, ret>>
  /\ UNCHANGED <<env, e, fails, streak, heads, robin, state, r, fr, observed, attempts, hcs>>
  /\ UNCHANGED <<fwdVars, listVars>>

\* edge.go:391: e.policy.List(e.proxies): the lists the call can return, and
\* the round-robin counter after the call (atomic.AddUint32, edge.go:470).
\* With an empty proxy list roundRobin.List divides by zero (edge.go:470):
\* the counter was incremented and the call panics.
list ==
  IF e.policy = "random"
    THEN [lists |-> randomList(e.proxies), robin |-> robin, panic |-> FALSE]
    ELSE IF Len(e.proxies) = 0
      THEN [lists |-> {}, robin |-> U32Inc(robin), panic |-> TRUE]
      ELSE [lists |-> {roundRobinList(e.proxies, U32Inc(robin))},
            robin |-> U32Inc(robin), panic |-> FALSE]

\* The insertion is forgotten.
withOwnLocation_forgotten(msg) == msg

\* edge.go:221: the message with the engine's own LOC record inserted.
withOwnLocation(msg) == insertLocationRecord(msg, e.locRR)

\* edge.go:211-231
ServeDNS_Upstreams ==
  /\ pc = "upstreams"
  /\ IF NumUpstreams = 0
       THEN /\ NextOrFailure
            /\ UNCHANGED <<r, fr, robin, heads>>
       ELSE /\ r' = withOwnLocation(r)
            /\ robin' = list.robin
            /\ IF list.panic
                 THEN Return("panic", DivideByZero) /\ UNCHANGED <<fr, heads>>
                 ELSE /\ \E l \in list.lists :
                           /\ fr' = [fr EXCEPT !.fails = 0, !.upstreamErr = NoErr,
                                               !.order = l, !.i = 1]
                           /\ heads' = IF e.policy = "round_robin"
                                          THEN Append(heads, l[1])
                                          ELSE heads
                      /\ pc' = "loop"
                      /\ UNCHANGED ret
  /\ UNCHANGED <<env, e, fails, streak, state, w, observed, attempts, hcs>>
  /\ UNCHANGED <<fwdVars, listVars>>

\* The last resort is taken one proxy too early.
skipDown_early(n) == n < Len(e.proxies) - 1

\* The last resort is never taken.
skipDown_always(n) == n <= Len(e.proxies)

\* edge.go:235: with n proxies seen down so far, the down proxy is skipped
\* (otherwise all are down and the last resort is taken).
skipDown(n) == n < Len(e.proxies)

\* edge.go:240-241: the proxies new(random).List(e.proxies)[0] can be.
lastResort == {l[1] : l \in randomList(e.proxies)}

\* edge.go:231-249: the head of one iteration of the loop over e.list().
ServeDNS_Loop ==
  /\ pc = "loop"
  /\ IF fr.i > Len(fr.order)
       THEN /\ pc' = "exhausted"
            /\ UNCHANGED <<fr, observed>>
       ELSE LET proxy == fr.order[fr.i]
                down == Down(proxy, e.maxUpstreamFails)
            IN  /\ observed' = Append(observed, [proxy |-> proxy, down |-> down])
                /\ IF down
                     THEN IF skipDown(fr.fails + 1)
                            THEN /\ fr' = [fr EXCEPT !.fails = fr.fails + 1,
                                                     !.i = fr.i + 1]
                                 /\ pc' = "loop"
                            ELSE /\ \E p \in lastResort :
                                      fr' = [fr EXCEPT !.fails = fr.fails + 1,
                                                       !.proxy = p,
                                                       !.stop = FALSE,
                                                       !.res = NewMsg, !.err = NoErr]
                                 /\ pc' = "connect"
                     ELSE /\ fr' = [fr EXCEPT !.proxy = proxy, !.stop = FALSE,
                                              !.res = NewMsg, !.err = NoErr]
                          /\ pc' = "connect"
  /\ UNCHANGED <<env, e, fails, streak, heads, robin, state, r, ret, w, attempts, hcs>>
  /\ UNCHANGED <<fwdVars, listVars>>

\* Every EOF is retried.
retryEOF_always(err, stop) == err # NoErr /\ err = EOF

\* edge.go:254: connect is called once more.
retryEOF(err, stop) == err # NoErr /\ err = EOF /\ ~stop

\* A failed attempt is counted as a failed probe of the proxy.
ServeDNS_Connect_counting ==
  /\ pc = "connect"
  /\ \E outcome \in env.outcomes :
       LET c == connect(fr.proxy, r, Proto(state.proto, e.forceTCP), outcome)
       IN  /\ attempts' = Append(attempts, c)
           /\ fails' = IF c.err # NoErr
                         THEN [fails EXCEPT ![fr.proxy] = U32Inc(fails[fr.proxy])]
                         ELSE fails
           /\ IF retryEOF(c.err, fr.stop)
                THEN /\ fr' = [fr EXCEPT !.res = c.res, !.err = c.err, !.stop = TRUE]
                     /\ pc' = "connect"
                ELSE /\ fr' = [fr EXCEPT !.res = c.res, !.err = c.err]
                     /\ pc' = "result"
  /\ UNCHANGED <<env, e, streak, heads, robin, state, r, ret, w, observed, hcs>>
  /\ UNCHANGED <<fwdVars, listVars>>

\* edge.go:252-259: one call of proxy.connect and the decision to call it again.
ServeDNS_Connect ==
  /\ pc = "connect"
  /\ \E outcome \in env.outcomes :
       LET c == connect(fr.proxy, r, Proto(state.proto, e.forceTCP), outcome)
       IN  /\ attempts' = Append(attempts, c)
           /\ IF retryEOF(c.err, fr.stop)
                THEN /\ fr' = [fr EXCEPT !.res = c.res, !.err = c.err, !.stop = TRUE]
                     /\ pc' = "connect"
                ELSE /\ fr' = [fr EXCEPT !.res = c.res, !.err = c.err]
                     /\ pc' = "result"
  /\ UNCHANGED <<env, e, fails, streak, heads, robin, state, r, ret, w, observed, hcs>>
  /\ UNCHANGED <<fwdVars, listVars>>

\* state.Scrub (edge.go:292) fits the reply to the client's buffer.
Scrub(res) == [res EXCEPT !.scrubbed = TRUE]

\* No health check is triggered.
Healthcheck_never(p) == <<>>

\* edge.go:270-272: the health checks triggered after an error on proxy p.
Healthcheck(p) == IF e.maxUpstreamFails # 0 THEN <<p>> ELSE <<>>

\* edge.go:273: after an error the loop goes on (otherwise it is left).
continueAfterError(n) == n < Len(e.proxies)

\* The error is not remembered.
upstreamErr_dropped(old, err) == NoErr

\* Only the first error of the request is kept.
upstreamErr_first(old, err) == IF old # NoErr THEN old ELSE err

\* edge.go:266: upstreamErr = err, whatever it was before.
upstreamErr(old, err) == err

\* edge.go:265-298: what is done with the result of the attempts on fr.proxy.
ServeDNS_Result ==
  /\ pc = "result"
  /\ LET t == truncated(fr.res, fr.err)
     IN  IF t.err # NoErr
           THEN /\ hcs' = hcs \o Healthcheck(fr.proxy)
                /\ fr' = [fr EXCEPT !.res = t.res, !.err = t.err,
                                    !.upstreamErr = upstreamErr(fr.upstreamErr, t.err),
                                    !.i = fr.i + 1]
                /\ pc' = IF continueAfterError(fr.fails) THEN "loop" ELSE "exhausted"
                /\ UNCHANGED <<w, ret>>
           ELSE /\ fr' = [fr EXCEPT !.res = t.res, !.err = t.err,
                                    !.upstreamErr = upstreamErr(fr.upstreamErr, t.err)]
                /\ IF ~Match(t.res)
                     THEN w' = WriteMsg(w, FormErr)
                     ELSE w' = WriteMsg(w, Scrub([t.res EXCEPT !.compress = TRUE]))
                /\ Return("Success", NoErr)
                /\ UNCHANGED hcs
  /\ UNCHANGED <<env, e, fails, streak, heads, robin, state, r, observed, attempts>>
  /\ UNCHANGED <<fwdVars, listVars>>

\* edge.go:300-313
ServeDNS_Exhausted ==
  /\ pc = "exhausted"
  /\ IF fr.upstreamErr # NoErr
       THEN Return("ServerFailure", fr.upstreamErr)
       ELSE NextOrFailure
  /\ UNCHANGED <<env, e, fails, streak, heads, robin, state, r, fr, w, observed, attempts, hcs>>
  /\ UNCHANGED <<fwdVars, listVars>>

ServeDNS ==
  \/ ServeDNS_Filter
  \/ ServeDNS_Local
  \/ ServeDNS_Table
  \/ ServeDNS_Upstreams
  \/ ServeDNS_Loop
  \/ ServeDNS_Connect
  \/ ServeDNS_Result
  \/ ServeDNS_Exhausted

(***************************************************************************)
(* Edge.Forward, lookup.go:30-75, in steps.  A call is made by another     *)
(* plugin with a prepared request, on an engine or on a nil one, while no  *)
(* request is being served.                                                *)
(***************************************************************************)
Forward_Call ==
  /\ pc = "idle"
  /\ fpc = "idle"
  /\ NoListCall
  /\ U32Lt(robin, MaxRobin) \/ robin[1] = Half - 1
  /\ \E qname \in env.names, extra \in env.extras, proto \in env.protos,
        nil \in BOOLEAN :
       freq' = [nil |-> nil, proto |-> proto, msg |-> Msg(qname, extra)]
  /\ fpc' = "enter"
  /\ f' = FFrame0
  /\ out' = NoOut
  /\ fobserved' = <<>>
  /\ fattempts' = <<>>
  /\ UNCHANGED <<env, e, fails, streak, heads, robin, srvVars, listVars>>

\* Forward has returned (or panicked): its local variables are gone.
Forward_Over ==
  /\ fpc = "returned"
  /\ fpc' = "idle"
  /\ freq' = NoCall
  /\ f' = FFrame0
  /\ out' = NoOut
  /\ fobserved' = <<>>
  /\ fattempts' = <<>>
  /\ UNCHANGED <<env, e, fails, streak, heads, robin, srvVars, listVars>>

Forward_Return(msg, err) ==
  /\ out' = [msg |-> msg, err |-> err]
  /\ fpc' = "returned"

\* lookup.go:31-37: the nil check and the call of e.list() of the range.
Forward_Enter ==
  /\ fpc = "enter"
  /\ IF freq.nil
       THEN /\ Forward_Return(NoMsg, errNoEdge)
            /\ UNCHANGED <<f, robin, heads>>
       ELSE /\ robin' = list.robin
            /\ IF list.panic
                 THEN Forward_Return(NoMsg, DivideByZero) /\ UNCHANGED <<f, heads>>
                 ELSE /\ \E l \in list.lists :
                           /\ f' = [f EXCEPT !.fails = 0, !.upstreamErr = NoErr,
                                             !.order = l, !.i = 1]
                           /\ heads' = IF e.policy = "round_robin"
                                          THEN Append(heads, l[1])
                                          ELSE heads
                      /\ fpc' = "loop"
                      /\ UNCHANGED out
  /\ UNCHANGED <<env, e, fails, streak, srvVars, listVars, freq, fobserved, fattempts>>

\* lookup.go:37-46: the head of one iteration of the loop; the last resort
\* is the head of one more e.list().
Forward_Loop ==
  /\ fpc = "loop"
  /\ IF f.i > Len(f.order)
       THEN /\ fpc' = "exhausted"
            /\ UNCHANGED <<f, fobserved, robin, heads>>
       ELSE LET proxy == f.order[f.i]
                down == Down(proxy, e.maxUpstreamFails)
            IN  /\ fobserved' = Append(fobserved, [proxy |-> proxy, down |-> down])
                /\ IF down
                     THEN IF f.fails + 1 < Len(e.proxies)
                            THEN /\ f' = [f EXCEPT !.fails = f.fails + 1,
                                                   !.i = f.i + 1]
                                 /\ fpc' = "loop"
                                 /\ UNCHANGED <<robin, heads>>
                            ELSE /\ \E l \in list.lists :
                                      /\ f' = [f EXCEPT !.fails = f.fails + 1,
                                                        !.proxy = l[1]]
                                      /\ heads' = IF e.policy = "round_robin"
                                                     THEN Append(heads, l[1])
                                                     ELSE heads
                                 /\ robin' = list.robin
                                 /\ fpc' = "connect"
                     ELSE /\ f' = [f EXCEPT !.proxy = proxy]
                          /\ fpc' = "connect"
                          /\ UNCHANGED <<robin, heads>>
  /\ UNCHANGED <<env, e, fails, streak, srvVars, listVars, freq, out, fattempts>>

\* lookup.go:49: the one call of proxy.connect of the iteration.
Forward_Connect ==
  /\ fpc = "connect"
  /\ \E outcome \in env.outcomes :
       LET c == connect(f.proxy, freq.msg, Proto(freq.proto, e.forceTCP), outcome)
       IN  /\ fattempts' = Append(fattempts, c)
           /\ f' = [f EXCEPT !.ret = c.res, !.err = c.err]
  /\ fpc' = "result"
  /\ UNCHANGED <<env, e, fails, streak, heads, robin, srvVars, listVars, freq, out, fobserved>>

\* lookup.go:51-67: what is done with the result of the attempt on f.proxy.
Forward_Result ==
  /\ fpc = "result"
  /\ LET t == truncated(f.ret, f.err)
     IN  IF t.err # NoErr
           THEN /\ f' = [f EXCEPT !.ret = t.res, !.err = t.err,
                                  !.upstreamErr = t.err, !.i = f.i + 1]
                /\ fpc' = IF f.fails < Len(e.proxies) THEN "loop" ELSE "exhausted"
                /\ UNCHANGED out
           ELSE /\ f' = [f EXCEPT !.ret = t.res, !.err = t.err,
                                  !.upstreamErr = t.err]
                /\ IF ~Match(t.res)
                     THEN Forward_Return(FormErr, NoErr)
                     ELSE Forward_Return(t.res, t.err)
  /\ UNCHANGED <<env, e, fails, streak, heads, robin, srvVars, listVars, freq, fobserved, fattempts>>

\* lookup.go:70-74
Forward_Exhausted ==
  /\ fpc = "exhausted"
  /\ IF f.upstreamErr # NoErr
       THEN Forward_Return(NoMsg, f.upstreamErr)
       ELSE Forward_Return(NoMsg, errNoHealthy)
  /\ UNCHANGED <<env, e, fails, streak, heads, robin, srvVars, listVars, freq, f, fobserved, fattempts>>

Forward ==
  \/ Forward_Enter
  \/ Forward_Loop
  \/ Forward_Connect
  \/ Forward_Result
  \/ Forward_Exhausted

(***************************************************************************)
(* Concurrent calls of e.policy.List(e.proxies), edge.go:441-475.  The      *)
(* round-robin List is two steps: the atomic addition, and the building of *)
(* the list from the value the addition returned.                          *)
(***************************************************************************)
\* edge.go:469: atomic.AddUint32(&r.robin, 1), whose result the call keeps;
\* the random policy has no counter.
List_Add(c) ==
  /\ pc = "idle"
  /\ fpc = "idle"
  /\ lcalls[c].pc = "idle"
  /\ U32Lt(robin, MaxRobin) \/ robin[1] = Half - 1
  /\ lbase' = IF NoListCall THEN robin ELSE lbase
  /\ robin' = IF e.policy = "random" THEN robin ELSE U32Inc(robin)
  /\ lcalls' = [lcalls EXCEPT ![c] = [pc |-> "added", i |-> robin', list |-> <<>>]]
  /\ heads' = IF e.policy = "random" \/ Len(e.proxies) = 0
                THEN heads
                ELSE Append(heads, roundRobinList(e.proxies, robin')[1])
  /\ UNCHANGED <<env, e, fails, streak, srvVars, fwdVars>>

\* edge.go:441-457 and 470-474: the list the call returns; the remainder by
\* the length of an empty list panics.
List_Build(c) ==
  /\ lcalls[c].pc = "added"
  /\ IF e.policy = "random"
       THEN \E l \in randomList(e.proxies) :
              lcalls' = [lcalls EXCEPT ![c].pc = "returned", ![c].list = l]
       ELSE IF Len(e.proxies) = 0
         THEN lcalls' = [lcalls EXCEPT ![c].pc = "panicked"]
         ELSE lcalls' = [lcalls EXCEPT ![c].pc = "returned",
                           ![c].list = roundRobinList(e.proxies, lcalls[c].i)]
  /\ UNCHANGED <<env, e, fails, streak, heads, robin, srvVars, fwdVars, lbase>>

\* Every call has returned: their results are gone.
List_Over ==
  /\ ~NoListCall
  /\ \A c \in Callers : lcalls[c].pc # "added"
  /\ lcalls' = [c \in Callers |-> NoList]
  /\ lbase' = U32(0)
  /\ UNCHANGED <<env, e, fails, streak, heads, robin, srvVars, fwdVars>>

Next ==
  \/ Receive
  \/ Finish
  \/ ServeDNS
  \/ Forward_Call
  \/ Forward_Over
  \/ Forward
  \/ \E p \in ProxyIds : Check(p)
  \/ \E c \in Callers : List_Add(c)
  \/ \E c \in Callers : List_Build(c)
  \/ List_Over

Spec == Init /\ [][Next]_vars
SpecFilter == InitFilter /\ [][Next]_vars
SpecAnswer == InitAnswer /\ [][Next]_vars
SpecForward == InitForward /\ [][Next]_vars
SpecCounters == InitCounters /\ [][Next]_vars
SpecTransport == InitTransport /\ [][Next]_vars

\* The goroutine that serves a request keeps running: a step of ServeDNS
\* that stays possible is taken, whatever the probes do meanwhile.
SpecForwardFair == InitForward /\ [][Next]_vars /\ WF_vars(ServeDNS)


(***************************************************************************)
(* Properties.  The request of a state is described from what was          *)
(* received (state.received), not from what the engine computed.           *)
(***************************************************************************)
ReqName == StateName(state)

\* The name is outside the base domain.
OutsideBase == ~NameMatches(e.baseDomain, ReqName)

\* The name matches one of the ignored patterns.
MatchesIgnored == \E i \in DOMAIN e.ignored : NameMatches(e.ignored[i], ReqName)

\* The name is rejected by the ignored list, which spares the base domain.
RejectedByIgnored == ReqName # e.baseDomain /\ MatchesIgnored

FailsFilter == OutsideBase \/ RejectedByIgnored

\* The request is past the filter step of ServeDNS.
Filtered == pc \notin {"idle", "filter"}

\* The engine yielded to the next plugin and did nothing else.
YieldedUntouched ==
  /\ pc = "done"
  /\ ret = [rcode |-> "Next", err |-> NoErr]
  /\ r = state.received
  /\ fr = Frame0
  /\ w = <<>>
  /\ observed = <<>>
  /\ attempts = <<>>
  /\ hcs = <<>>

\* C1: a request whose name fails the filter is handed to the next plugin with
\* the message as received: no location record extracted or inserted, no
\* reply written, no proxy contacted.
C1_FilterFrame == (Filtered /\ FailsFilter) => YieldedUntouched

\* C1 witness: a request that carries a location record was rejected, and the
\* record is still in the message.
C1_Witness ==
  /\ pc = "done"
  /\ FailsFilter
  /\ NumLoc(state.received.extra) = 1
  /\ NumLoc(r.extra) = 1
  /\ ret.rcode = "Next"

\* C4 as claimed: every query whose name matches an ignored pattern is
\* yielded to the next plugin, never answered and never forwarded.
C4_Original ==
  (pc = "done" /\ MatchesIgnored)
    => (ret.rcode = "Next" /\ w = <<>> /\ attempts = <<>>)

\* C4 amended: a query whose name matches an ignored pattern and is not the
\* base domain itself is yielded to the next plugin untouched; a query for the
\* base domain itself always passes the filter, whatever the ignored list.
C4_Amended ==
  /\ (Filtered /\ MatchesIgnored /\ ReqName # e.baseDomain) => YieldedUntouched
  /\ (Filtered /\ ReqName = e.baseDomain) => ~YieldedUntouched

\* C4 witness: a query below an ignored pattern, other than the base domain,
\* was yielded.
C4_Witness ==
  /\ pc = "done"
  /\ MatchesIgnored
  /\ ~OutsideBase
  /\ ReqName # e.baseDomain
  /\ ret.rcode = "Next"

\* C4, the base domain: a query for the base domain that matches an ignored
\* pattern was answered by the engine.
C4_BaseAnswered ==
  /\ pc = "done"
  /\ MatchesIgnored
  /\ ReqName = e.baseDomain
  /\ w # <<>>


(***************************************************************************)
(* The decision of ServeDNS, described from the request and the engine.    *)
(***************************************************************************)
PassesFilter == ~FailsFilter

\* The request carries no location record.
NoMarker == NumLoc(state.received.extra) = 0

\* The point of the location record of the request (it carries at most one).
MarkerPoint ==
  LET extra == state.received.extra
      i == CHOOSE i \in DOMAIN extra : IsLoc(extra[i])
  IN  extra[i].pt

\* The service name: the query name, lower-cased, without its trailing dot.
ReqService == trimTrailingDot(ReqName)

LocalHit == PassesFilter /\ NoMarker /\ ReqService \in e.services

InTable == ReqService \in DOMAIN e.table /\ e.table[ReqService] # {}

TableHit == PassesFilter /\ ~LocalHit /\ InTable

RefPoint == IF NoMarker THEN e.geoCoords ELSE MarkerPoint

\* The sites of the entry at minimal great-circle distance of the reference point.
Nearest ==
  {s \in e.table[ReqService] :
     \A t \in e.table[ReqService] :
       GreatCircleDistance(RefPoint, s.GeoCoords)
         <= GreatCircleDistance(RefPoint, t.GeoCoords)}

\* Exactly one reply was written: authoritative, compressed, with one answer
\* record of the type of the client's family.
OneAuthReply ==
  /\ Len(w) = 1
  /\ w[1].kind = "auth"
  /\ w[1].authoritative
  /\ w[1].compress
  /\ Len(w[1].answer) = 1
  /\ w[1].answer[1].type = (IF state.family = 1 THEN "A" ELSE "AAAA")
  /\ w[1].answer[1].name = state.received.qname

Succeeded == ret = [rcode |-> "Success", err |-> NoErr]

NoProxyUsed == attempts = <<>> /\ observed = <<>> /\ hcs = <<>>

\* The address an answer record of the client's family carries for addr.
Carried(addr) == IF state.family = 1 THEN To4(addr) ELSE addr

\* C2 as claimed: a request that passes the filter, carries no marker and asks
\* for a local service gets exactly one authoritative, compressed reply with
\* one A (IPv4 client) or AAAA (IPv6 client) record that holds the cluster's
\* own IP; ServeDNS returns success and no proxy is contacted.
C2_Claim ==
  (Filtered /\ LocalHit) =>
    /\ pc \in {"local", "done"}
    /\ NoProxyUsed
    /\ pc = "done" =>
         (OneAuthReply /\ w[1].answer[1].addr = e.ip /\ Succeeded)

\* C2, what holds of the code: the record holds the cluster's IP as To4 gives
\* it for an IPv4 client, which is no address when the cluster's IP is IPv6.
C2_Carried ==
  (Filtered /\ LocalHit) =>
    /\ pc \in {"local", "done"}
    /\ NoProxyUsed
    /\ pc = "done" =>
         (OneAuthReply /\ w[1].answer[1].addr = Carried(e.ip) /\ Succeeded)

\* C2: the local hit of an IPv4 client at a cluster whose IP is IPv6.
C2_EmptyRecord ==
  /\ pc = "done"
  /\ LocalHit
  /\ e.ip.v = 6
  /\ state.family = 1
  /\ w[1].answer[1].addr = NilIP

\* C3 as claimed: a request that passes the filter, is no local hit and whose
\* service has a table entry with at least one site gets an authoritative
\* reply whose answer IP is the IP of a site of the entry nearest to the
\* marker point (or to the cluster's own point without a marker); ServeDNS
\* returns success and contacts no proxy.
C3_Claim ==
  (Filtered /\ TableHit) =>
    /\ pc \in {"local", "table", "done"}
    /\ NoProxyUsed
    /\ pc = "done" =>
         /\ OneAuthReply
         /\ w[1].answer[1].addr \in {s.IP : s \in Nearest}
         /\ Succeeded

\* C3, what holds of the code: the record holds the IP of a nearest site as
\* To4 gives it for an IPv4 client.
C3_Carried ==
  (Filtered /\ TableHit) =>
    /\ pc \in {"local", "table", "done"}
    /\ NoProxyUsed
    /\ pc = "done" =>
         /\ OneAuthReply
         /\ w[1].answer[1].addr \in {Carried(s.IP) : s \in Nearest}
         /\ Succeeded

\* C3: a redirect by the marker point among several sites, not all nearest.
C3_Redirected ==
  /\ pc = "done"
  /\ TableHit
  /\ ~NoMarker
  /\ Cardinality(e.table[ReqService]) >= 2
  /\ Nearest # e.table[ReqService]
  /\ w[1].answer[1].addr \in {s.IP : s \in Nearest}

NotLoc(rr) == ~IsLoc(rr)

\* The message is the received one without its location record and with the
\* engine's own record appended.
OwnRecordInserted ==
  /\ pc \notin {"idle", "filter", "local"}
  /\ fr # Frame0
  /\ r.extra = Append(SelectSeq(state.received.extra, NotLoc), e.locRR)

\* The request entered the forward path: the engine's record was inserted,
\* the proxy list was ordered or a proxy was consulted.
ForwardEntered ==
  \/ OwnRecordInserted
  \/ fr.order # <<>>
  \/ attempts # <<>>
  \/ observed # <<>>

\* C5 as claimed: local hit, then table redirect, then forward.  The location
\* record is inserted and a proxy contacted only for a request that passed
\* the filter, was no local hit and found no site in the table; a service
\* that is local and in the table is answered with the cluster's own IP when
\* the request has no marker.
C5_Claim ==
  /\ ForwardEntered => (PassesFilter /\ ~LocalHit /\ ~InTable)
  /\ (pc = "done" /\ LocalHit /\ InTable) =>
       (OneAuthReply /\ w[1].answer[1].addr = e.ip /\ Succeeded)

\* C5, what holds of the code: the same order of the steps, the answer of
\* the local hit being the cluster's IP as To4 gives it for an IPv4 client.
C5_Carried ==
  /\ ForwardEntered => (PassesFilter /\ ~LocalHit /\ ~InTable)
  /\ (pc = "done" /\ LocalHit /\ InTable) =>
       (OneAuthReply /\ w[1].answer[1].addr = Carried(e.ip) /\ Succeeded)

\* C5: a service both local and in the table, asked without a marker, was
\* answered with the cluster's IP although the table names other sites.
C5_LocalFirst ==
  /\ pc = "done"
  /\ LocalHit
  /\ InTable
  /\ e.ip \notin {s.IP : s \in e.table[ReqService]}
  /\ w[1].answer[1].addr = e.ip


(***************************************************************************)
(* The forward path, described from the log of the request: the Down()     *)
(* results it saw, the connect calls it made, the health checks it         *)
(* triggered.                                                              *)
(***************************************************************************)
\* The message a forwarded request must put on the wire: the received one,
\* its location record removed, the engine's own record added.
Forwarded ==
  [qname |-> state.received.qname,
   extra |-> Append(SelectSeq(state.received.extra, NotLoc), e.locRR)]

InLoop == pc \in {"loop", "connect", "result", "exhausted"}

AllObservedDown ==
  /\ e.proxies # <<>>
  /\ Len(observed) = Len(e.proxies)
  /\ \A i \in DOMAIN observed : observed[i].down

ObservedUp(p) ==
  \E i \in DOMAIN observed : observed[i].proxy = p /\ ~observed[i].down

\* C7: a proxy seen down is not contacted unless every proxy of the list was
\* seen down; so when at least one proxy was seen not down, every contacted
\* proxy is one that was seen not down.  Each proxy is looked at once.
C7_DownSkipped ==
  /\ \A i, k \in DOMAIN observed :
       observed[i].proxy = observed[k].proxy => i = k
  /\ \A j \in DOMAIN attempts :
       ~ObservedUp(attempts[j].proxy) => AllObservedDown
  /\ (\E i \in DOMAIN observed : ~observed[i].down) =>
       \A j \in DOMAIN attempts : ObservedUp(attempts[j].proxy)

\* C7 witness: of two proxies the first was seen down and only the second
\* was contacted.
C7_Witness ==
  /\ pc = "done"
  /\ Len(e.proxies) = 2
  /\ Len(observed) = 2
  /\ observed[1].down
  /\ ~observed[2].down
  /\ attempts # <<>>
  /\ \A j \in DOMAIN attempts : attempts[j].proxy = observed[2].proxy

Range(seq) == {seq[x] : x \in DOMAIN seq}

LastAttempt == attempts[Len(attempts)]

\* The reply read from proxy p was written to the client, compressed and scrubbed.
ReplyWritten(a) ==
  /\ Len(w) = 1
  /\ w[1] = [a.res EXCEPT !.compress = TRUE, !.scrubbed = TRUE]
  /\ w[1].from = a.proxy

\* C8: when every proxy of the list was seen down, exactly one proxy, of the
\* full list, is contacted, and the result of that attempt is the result of
\* the request: the reply, FormErr, or ServerFailure with its error.
C8_LastResort ==
  AllObservedDown =>
    /\ \A j \in DOMAIN attempts :
         /\ attempts[j].proxy = attempts[1].proxy
         /\ attempts[j].proxy \in Range(e.proxies)
    /\ pc \in {"connect", "result", "exhausted", "done"}
    /\ pc \in {"exhausted", "done"} => attempts # <<>>
    /\ pc = "done" =>
         /\ LastAttempt.err # NoErr =>
              /\ ret = [rcode |-> "ServerFailure", err |-> LastAttempt.err]
              /\ w = <<>>
         /\ (LastAttempt.err = NoErr /\ LastAttempt.res.matches) =>
              (Succeeded /\ ReplyWritten(LastAttempt))
         /\ (LastAttempt.err = NoErr /\ ~LastAttempt.res.matches) =>
              (Succeeded /\ w = <<FormErr>>)

\* C8 witness: both proxies were seen down, the one contacted is not the one
\* the iteration was at, and its error is the result.
C8_Witness ==
  /\ pc = "done"
  /\ Len(e.proxies) = 2
  /\ AllObservedDown
  /\ attempts[1].proxy # observed[2].proxy
  /\ ret.rcode = "ServerFailure"

FirstOn(j) == j = 1 \/ attempts[j - 1].proxy # attempts[j].proxy
LastOn(j) == j = Len(attempts) \/ attempts[j + 1].proxy # attempts[j].proxy

\* C9: a proxy gets a second connect call exactly when the first one failed
\* with EOF, and never a third; when the second call returns a reply, the
\* client gets it and no health check is triggered on the proxy.
C9_EofRetry ==
  /\ \A p \in Range(e.proxies) :
       Cardinality({j \in DOMAIN attempts : attempts[j].proxy = p}) <= 2
  /\ \A j, k \in DOMAIN attempts :
       (attempts[j].proxy = attempts[k].proxy /\ j < k) =>
          (k = j + 1 /\ attempts[j].err = EOF)
  /\ \A j \in DOMAIN attempts :
       (attempts[j].err = EOF /\ FirstOn(j) /\ LastOn(j)) =>
          (j = Len(attempts) /\ pc = "connect" /\ fr.stop)
  /\ (pc = "done" /\ attempts # <<>> /\ ~FirstOn(Len(attempts))
        /\ LastAttempt.err = NoErr) =>
       /\ Succeeded
       /\ LastAttempt.proxy \notin Range(hcs)
       /\ IF LastAttempt.res.matches
            THEN ReplyWritten(LastAttempt)
            ELSE w = <<FormErr>>

\* C9 witness: EOF, then a reply on the same proxy, which the client got.
C9_Witness ==
  /\ pc = "done"
  /\ Len(attempts) = 2
  /\ attempts[1].err = EOF
  /\ attempts[2].proxy = attempts[1].proxy
  /\ attempts[2].err = NoErr
  /\ attempts[2].res.matches
  /\ Succeeded
  /\ ReplyWritten(attempts[2])
  /\ hcs = <<>>

\* The attempts on the proxy of attempt j are over and ServeDNS has dealt
\* with their result.
Dealt(j) ==
  /\ LastOn(j)
  /\ ~(pc \in {"connect", "result"} /\ attempts[j].proxy = fr.proxy)

\* The proxies whose attempts ended in an error, in the order of the attempts.
RECURSIVE FailedFrom(_)
FailedFrom(j) ==
  IF j > Len(attempts) THEN <<>>
  ELSE (IF Dealt(j) /\ attempts[j].err # NoErr
          THEN <<attempts[j].proxy>>
          ELSE <<>>) \o FailedFrom(j + 1)

Failed == FailedFrom(1)

\* After an error the error is remembered and the iteration is past the
\* proxy of the error.
ErrorKept ==
  (pc \in {"loop", "exhausted", "done"} /\ fr.err # NoErr) =>
    /\ fr.upstreamErr = fr.err
    /\ LastAttempt.proxy = fr.proxy
    /\ LastAttempt.err = fr.err
    /\ pc = "loop" => \E k \in 1..(fr.i - 1) : fr.order[k] = fr.proxy

\* C10 as claimed: for every max_fails, each attempt that ends in an error
\* triggers a health check on its proxy, the error is remembered and the
\* iteration advances.
C10_Original == hcs = Failed /\ ErrorKept

\* C10 amended: each attempt that ends in an error is remembered and the
\* iteration advances; a health check is triggered on its proxy when
\* max_fails is not zero, and none is triggered when max_fails is zero.
C10_Amended ==
  /\ hcs = (IF e.maxUpstreamFails # 0 THEN Failed ELSE <<>>)
  /\ ErrorKept

\* C10 witness: both proxies failed, each got its health check, and the last
\* error is returned.
C10_Witness ==
  /\ pc = "done"
  /\ e.maxUpstreamFails # 0
  /\ Len(hcs) = 2
  /\ hcs[1] # hcs[2]
  /\ hcs = Failed
  /\ ret = [rcode |-> "ServerFailure", err |-> LastAttempt.err]

\* C10, max_fails zero: an attempt failed and no health check was triggered.
C10_NoProbe ==
  /\ pc = "done"
  /\ e.maxUpstreamFails = 0
  /\ Failed # <<>>
  /\ hcs = <<>>


\* C11: when the request is over and no connect call of it returned a reply,
\* ServeDNS returns ServerFailure with the error of the last proxy it
\* attempted and writes no reply; and ServerFailure is returned only when
\* proxies were attempted and every connect call ended in an error.
C11_ServerFailure ==
  /\ (pc = "done" /\ attempts # <<>>
        /\ \A j \in DOMAIN attempts : attempts[j].err # NoErr) =>
       /\ ret = [rcode |-> "ServerFailure", err |-> LastAttempt.err]
       /\ w = <<>>
  /\ ret.rcode = "ServerFailure" =>
       /\ pc = "done"
       /\ attempts # <<>>
       /\ \A j \in DOMAIN attempts :
            attempts[j].err # NoErr /\ attempts[j].res = NoMsg
       /\ ret.err = LastAttempt.err
       /\ w = <<>>

\* C11 witness: two proxies failed with different errors and the error
\* returned is the one of the second.
C11_Witness ==
  /\ pc = "done"
  /\ ret.rcode = "ServerFailure"
  /\ Len(attempts) = 2
  /\ attempts[1].proxy # attempts[2].proxy
  /\ attempts[1].err # attempts[2].err
  /\ ret.err = attempts[2].err


\* No connect call of the request returned a reply.
NoReplyObtained == \A j \in DOMAIN attempts : attempts[j].err # NoErr

C12_YieldedEmpty ==
  /\ pc = "done"
  /\ PassesFilter
  /\ ret.rcode = "Next"
  /\ e.proxies = <<>>


\* A connect call of the request read a reply whose question does not match.
Mismatched(j) == attempts[j].err = NoErr /\ ~attempts[j].res.matches

\* C13: a reply whose question does not match the request ends the request:
\* no connect call follows it, the client gets FormErr (rcode 1) and nothing
\* else, ServeDNS returns success with a nil error, no health check is
\* triggered on the proxy, and a mismatching reply is never written.
C13_FormErr ==
  /\ \A j \in DOMAIN attempts :
       Mismatched(j) =>
         /\ j = Len(attempts)
         /\ pc \in {"result", "done"}
         /\ attempts[j].proxy \notin Range(hcs)
         /\ pc = "done" =>
              /\ w = <<FormErr>>
              /\ FormErr.rcode = 1
              /\ Succeeded
  /\ \A k \in DOMAIN w : w[k].kind = "reply" => w[k].matches

\* C13 witness: the first proxy failed, the second one sent a mismatching
\* reply although a third connect outcome was possible; FormErr was written.
C13_Witness ==
  /\ pc = "done"
  /\ Len(e.proxies) = 2
  /\ Len(attempts) = 2
  /\ attempts[1].err = "timeout"
  /\ attempts[2].proxy # attempts[1].proxy
  /\ Mismatched(2)
  /\ w = <<FormErr>>
  /\ Succeeded


\* A request that passed the filter and carries a location record.
FromPeer == Filtered /\ PassesFilter /\ ~NoMarker

\* An authoritative reply was written.
AuthWritten == \E k \in DOMAIN w : w[k].kind = "auth"

\* C14: a request that carries a location record is never answered by the
\* local-hit step, whether or not its service is local: that step writes and
\* returns nothing for it; if it is answered authoritatively, its service
\* has sites in the table and the record is the one written for a site
\* nearest to the marker point; otherwise it goes upstream (or to the next
\* plugin) and no authoritative reply is written.
C14_PeerNotLocal ==
  /\ [](FromPeer =>
          /\ InTable => (pc \in {"local", "table", "done"} /\ NoProxyUsed)
          /\ (pc = "done" /\ InTable) =>
               /\ OneAuthReply
               /\ w[1].answer[1].addr \in
                    {Carried(s.IP) :
                       s \in {n \in e.table[ReqService] :
                                \A t \in e.table[ReqService] :
                                  GreatCircleDistance(MarkerPoint, n.GeoCoords)
                                    <= GreatCircleDistance(MarkerPoint, t.GeoCoords)}}
          /\ ~InTable => ~AuthWritten)
  /\ [][(pc = "local" /\ ~NoMarker /\ pc' # pc) =>
          (pc' = "table" /\ w' = w /\ ret' = ret)]_vars

\* C14 witness: a peer asked for a service that is local and has no site in
\* the table; the request went to the proxy and its reply was written.
C14_Witness ==
  /\ pc = "done"
  /\ FromPeer
  /\ ReqService \in e.services
  /\ ~InTable
  /\ Len(attempts) = 1
  /\ ReplyWritten(attempts[1])

\* C14: a peer asked for a service that is local and in the table, and was
\* sent to the site nearest to its marker, not to this cluster.
C14_PeerRedirected ==
  /\ pc = "done"
  /\ FromPeer
  /\ ReqService \in e.services
  /\ InTable
  /\ OneAuthReply
  /\ w[1].answer[1].addr # Carried(e.ip)


\* A request that passed the filter, is no local hit and finds no site in
\* the table, at an engine with no proxy.
NoUpstreamCase ==
  Filtered /\ PassesFilter /\ ~LocalHit /\ ~InTable /\ e.proxies = <<>>

\* C15: such a request is yielded to the next plugin: the engine's location
\* record is not inserted, no reply is written, no proxy is consulted; and
\* the step that yields leaves the message and the round-robin counter as
\* they are (the selection policy is not invoked).
C15_NoUpstreams ==
  /\ [](NoUpstreamCase =>
          /\ pc \in {"local", "table", "upstreams", "done"}
          /\ w = <<>>
          /\ NoProxyUsed
          /\ fr.order = <<>>
          /\ \A k \in DOMAIN r.extra : r.extra[k] # e.locRR
          /\ pc \in {"table", "upstreams", "done"} =>
               r.extra = SelectSeq(state.received.extra, NotLoc)
          /\ pc = "done" => ret = [rcode |-> "Next", err |-> NoErr])
  /\ [][(pc = "upstreams" /\ e.proxies = <<>> /\ pc' # pc) =>
          (pc' = "done" /\ robin' = robin /\ r' = r /\ fr' = fr /\ w' = w)]_vars

\* C15 witness: under the round-robin policy a client's request for an
\* unknown service was yielded, the engine having no proxy.
C15_Witness ==
  /\ pc = "done"
  /\ NoUpstreamCase
  /\ e.policy = "round_robin"
  /\ NoMarker
  /\ ret.rcode = "Next"
  /\ r = state.received


(***************************************************************************)
(* The 32-bit counters.                                                    *)
(***************************************************************************)
\* x > y for two 32-bit values
U32Gt(x, y) == x[1] > y[1] \/ (x[1] = y[1] /\ x[2] > y[2])

\* The step is a failed Check of proxy p; a successful one.
FailedCheck(p) == streak'[p] = CountInc(streak[p])
SuccessfulCheck(p) == streak'[p] = U32(0) /\ streak[p] # U32(0)

\* C16 as claimed: a failed Check leaves the counter strictly greater than
\* it was (one more), a successful Check leaves it at zero, and the counter
\* is always the number of failed Checks since the last successful one.
C16_Claim ==
  /\ [](\A p \in DOMAIN fails : fails[p] = streak[p])
  /\ [][\A p \in DOMAIN fails :
          /\ FailedCheck(p) =>
               (U32Gt(fails'[p], fails[p]) /\ fails'[p] = CountInc(fails[p]))
          /\ SuccessfulCheck(p) => fails'[p] = U32(0)]_vars

\* C16, what holds of the code: the counter is that number modulo 2^32; a
\* failed Check adds one modulo 2^32 and a successful one stores zero.
C16_Modular ==
  /\ [](\A p \in DOMAIN fails :
          fails[p] = <<streak[p][1] % Half, streak[p][2]>>)
  /\ [][\A p \in DOMAIN fails :
          /\ FailedCheck(p) => fails'[p] = U32Inc(fails[p])
          /\ SuccessfulCheck(p) => fails'[p] = U32(0)
          /\ fails'[p] # fails[p] => (FailedCheck(p) \/ SuccessfulCheck(p))]_vars

\* C16: after 2^32 failed Checks in a row the counter of a proxy is zero and
\* the proxy is not down.
C16_Wrapped ==
  \E p \in DOMAIN fails :
    /\ streak[p] = <<Half, 0>>
    /\ fails[p] = U32(0)
    /\ ~Down(p, e.maxUpstreamFails)


\* The step is a call of roundRobin.List that returned.
ListCalled == pc = "upstreams" /\ pc' = "loop" /\ e.policy = "round_robin"

\* Sequence l holds every element of sequence p exactly once.
SameElements(l, p) ==
  /\ Len(l) = Len(p)
  /\ \A x \in Range(p) : Cardinality({k \in DOMAIN l : l[k] = x}) = 1

\* C17: a call of roundRobin.List on N >= 1 proxies adds one to the counter
\* (modulo 2^32) and returns N proxies: first the proxy at index (counter
\* mod N) of the input, then the other proxies in the order of the input,
\* each proxy once; the input list is unchanged.
C17_RoundRobinList ==
  [][ListCalled =>
        LET p == e.proxies
            l == fr'.order
            Other(x) == x # l[1]
        IN  /\ Len(p) >= 1
            /\ robin' = U32Inc(robin)
            /\ SameElements(l, p)
            /\ l[1] = p[U32Rem(robin', Len(p)) + 1]
            /\ Tail(l) = SelectSeq(p, Other)
            /\ e'.proxies = p]_vars

\* C17 witness: of three proxies the second was made the head, the first
\* and the third follow in that order.
C17_Witness ==
  /\ pc = "loop"
  /\ fr.i = 1
  /\ e.policy = "round_robin"
  /\ e.proxies = <<1, 2, 3>>
  /\ fr.order = <<2, 1, 3>>
  /\ U32Rem(robin, 3) = 1


\* The number of calls a..b of roundRobin.List that returned x as the head.
HeadCount(a, b, x) == Cardinality({k \in a..b : heads[k] = x})

\* Over the calls a..b every proxy was the head floor(M/N) or ceil(M/N)
\* times, M being the number of calls and N the number of proxies.
FairWindow(a, b) ==
  LET M == b - a + 1
      N == Len(e.proxies)
  IN  \A x \in Range(e.proxies) :
        HeadCount(a, b, x) \in {M \div N, (M + N - 1) \div N}

\* C18 as claimed: every window of consecutive roundRobin.List calls is
\* fair, whatever the value of the counter at its start.
C18_Claim ==
  \A a, b \in DOMAIN heads : a <= b => FairWindow(a, b)

\* C18, what holds of the code: with one or two proxies (2^32 is a multiple
\* of N) every window is fair, the wrap of the counter included.
C18_FairIfDivides ==
  Len(e.proxies) \in {1, 2} =>
    \A a, b \in DOMAIN heads : a <= b => FairWindow(a, b)

\* C18: with three proxies the same proxy was the head of two calls in a
\* row, the counter having wrapped from 2^32 - 1 to 0 between them.
C18_Unfair ==
  /\ Len(e.proxies) = 3
  /\ Len(heads) >= 3
  /\ \E k \in 1..(Len(heads) - 1) : heads[k] = heads[k + 1]
  /\ ~FairWindow(1, 3)

\* C18: two proxies took turns over four calls across the wrap.
C18_WrapFair ==
  /\ Len(e.proxies) = 2
  /\ Len(heads) >= 4
  /\ robin[1] = 0


(***************************************************************************)
(* Edge.Forward, described from the log of the call.                       *)
(***************************************************************************)
\* The errors connect can return.
TransportErrors == {"dial", "write", "timeout", EOF}

FLast == fattempts[Len(fattempts)]

\* What Forward returned is a reply with a nil error, noEdge, noHealthy, or
\* a transport error.
OneOfFour ==
  \/ out.err = NoErr /\ out.msg # NoMsg
  \/ out.err = errNoEdge /\ out.msg = NoMsg
  \/ out.err = errNoHealthy /\ out.msg = NoMsg
  \/ out.err \in TransportErrors /\ out.msg = NoMsg

\* How what Forward returned depends on the call.
ForwardVerdict ==
  /\ out.err = errNoEdge <=> freq.nil
  /\ freq.nil => (fattempts = <<>> /\ fobserved = <<>>)
  /\ out.err \in TransportErrors =>
       /\ fattempts # <<>>
       /\ \A j \in DOMAIN fattempts : fattempts[j].err # NoErr
       /\ out.err = FLast.err
  /\ out.err = errNoHealthy =>
       (f.upstreamErr = NoErr /\ fattempts = <<>>)
  /\ out.err = NoErr =>
       /\ fattempts # <<>>
       /\ FLast.err = NoErr
       /\ \A j \in 1..(Len(fattempts) - 1) : fattempts[j].err # NoErr
       /\ out.msg = (IF FLast.res.matches THEN FLast.res ELSE FormErr)

\* C19 as claimed: every call of Forward returns one of the four, by the
\* rules above.
C19_Claim == fpc = "returned" => (OneOfFour /\ ForwardVerdict)

\* C19, what holds of the code: every call that does not panic returns one
\* of the four, by the rules above; a call panics only on an engine with no
\* proxy under round robin.
C19_Carried ==
  fpc = "returned" =>
    IF out.err = DivideByZero
      THEN ~freq.nil /\ e.proxies = <<>> /\ e.policy = "round_robin"
      ELSE OneOfFour /\ ForwardVerdict

\* C19: a call on an engine with no proxy, under round robin, panicked.
C19_Panicked ==
  /\ fpc = "returned"
  /\ out.err = DivideByZero
  /\ e.proxies = <<>>

\* C19: a call returned the error of the second of two proxies.
C19_LastError ==
  /\ fpc = "returned"
  /\ Len(fattempts) = 2
  /\ fattempts[1].err # fattempts[2].err
  /\ out = [msg |-> NoMsg, err |-> fattempts[2].err]

\* The attempt on the proxy of connect call j of Forward is over.
FDealt(j) == j < Len(fattempts) \/ fpc \in {"loop", "exhausted", "returned"}

\* C20 as claimed: when the first connect call on a proxy fails with EOF,
\* Forward calls connect on that proxy once more before it moves on, as
\* ServeDNS does.
C20_Claim ==
  \A j \in DOMAIN fattempts :
    (fattempts[j].err = EOF /\ FDealt(j)
       /\ (j = 1 \/ fattempts[j - 1].proxy # fattempts[j].proxy)) =>
      (j < Len(fattempts) /\ fattempts[j + 1].proxy = fattempts[j].proxy)

\* C20, what holds of the code: Forward calls connect once in an iteration
\* of its loop, whatever the error; an EOF is an error like another.
C20_NoRetry ==
  /\ Len(fattempts) <= Len(fobserved)
  /\ Len(fattempts) <= Len(e.proxies)
  /\ (fpc = "returned" /\ fattempts # <<>> /\ FLast.err = EOF) =>
       out = [msg |-> NoMsg, err |-> EOF]

\* C20: the one proxy, not down, closed the connection at the first read;
\* Forward returned EOF after one connect call.
C20_EofReturned ==
  /\ fpc = "returned"
  /\ Len(e.proxies) = 1
  /\ fobserved = <<[proxy |-> 1, down |-> FALSE]>>
  /\ Len(fattempts) = 1
  /\ fattempts[1].err = EOF
  /\ out = [msg |-> NoMsg, err |-> EOF]

\* C20: on the same proxy and the same first outcome ServeDNS called connect
\* once more, read a reply and wrote it to the client.
C20_ServeDNSRetried ==
  /\ pc = "done"
  /\ Len(e.proxies) = 1
  /\ observed = <<[proxy |-> 1, down |-> FALSE]>>
  /\ Len(attempts) = 2
  /\ attempts[1].err = EOF
  /\ ReplyWritten(attempts[2])
  /\ Succeeded


(***************************************************************************)
(* Transport.                                                              *)
(***************************************************************************)
\* Connect call j of the request read, over UDP, a reply flagged truncated.
TruncatedOverUDP(j) ==
  /\ attempts[j].err = NoErr
  /\ attempts[j].res.tc
  /\ attempts[j].proto = "udp"

\* C21 as claimed: when the reply a proxy gave over UDP is flagged
\* truncated, ServeDNS calls connect on that proxy once more, over TCP,
\* before it answers the client.
C21_Claim ==
  \A j \in DOMAIN attempts :
    (TruncatedOverUDP(j) /\ pc = "done") =>
      /\ j < Len(attempts)
      /\ attempts[j + 1].proxy = attempts[j].proxy
      /\ attempts[j + 1].proto = "tcp"

\* C21, what holds of the code: every connect call of a request uses the
\* one protocol of the request (TCP under force_tcp); a reply, truncated or
\* not, is the last connect call; the truncated reply is what the client
\* gets.
C21_NoRetry ==
  /\ \A j \in DOMAIN attempts :
       /\ attempts[j].proto = Proto(state.proto, e.forceTCP)
       /\ attempts[j].err = NoErr => j = Len(attempts)
  /\ (pc = "done" /\ attempts # <<>> /\ TruncatedOverUDP(Len(attempts))) =>
       (ReplyWritten(LastAttempt) /\ w[1].tc /\ Succeeded)

\* C21: the one connect call of the request read a truncated reply over
\* UDP, and the client got that reply.
C21_TruncatedRelayed ==
  /\ pc = "done"
  /\ ~e.forceTCP
  /\ Len(attempts) = 1
  /\ TruncatedOverUDP(1)
  /\ Len(w) = 1
  /\ w[1].tc
  /\ Succeeded


\* How often operation op was done in connect call c.
OpCount(c, op) == Cardinality({k \in DOMAIN c.ops : c.ops[k] = op})

\* Connect call c released the connection it got from Dial exactly once, by
\* Yield if the write and the read succeeded and by Close otherwise, as the
\* last thing it did; when Dial failed nothing was written, closed or
\* yielded and the call returned the error of Dial.
ReleasedOnce(c) ==
  /\ c.ops[1] = "Dial"
  /\ OpCount(c, "Dial") = 1
  /\ IF c.dialed
       THEN /\ OpCount(c, "Close") + OpCount(c, "Yield") = 1
            /\ c.ops[Len(c.ops)] \in {"Close", "Yield"}
            /\ OpCount(c, "Yield") = 1 <=>
                 (c.err = NoErr /\ OpCount(c, "WriteMsg") = 1
                    /\ OpCount(c, "ReadMsg") = 1 /\ c.res # NoMsg)
            /\ OpCount(c, "Close") = 1 <=> c.err # NoErr
            /\ c.yielded <=> OpCount(c, "Yield") = 1
            /\ c.closed <=> OpCount(c, "Close") = 1
            /\ c.err # NoErr => c.res = NoMsg
       ELSE /\ c.ops = <<"Dial">>
            /\ ~c.closed /\ ~c.yielded
            /\ c.written = NoMsg
            /\ c.res = NoMsg
            /\ c.err = "dial"

\* C22: every connect call, of ServeDNS and of Forward, releases its
\* connection exactly once.
C22_ReleasedOnce ==
  /\ \A j \in DOMAIN attempts : ReleasedOnce(attempts[j])
  /\ \A j \in DOMAIN fattempts : ReleasedOnce(fattempts[j])

\* C22 witness: one request saw a connection closed after a failed read, a
\* failed Dial and a connection yielded after a reply.
C22_Witness ==
  /\ pc = "done"
  /\ Len(attempts) = 3
  /\ attempts[1].ops = <<"Dial", "WriteMsg", "ReadMsg", "Close">>
  /\ attempts[2].ops = <<"Dial">>
  /\ attempts[3].ops = <<"Dial", "WriteMsg", "ReadMsg", "Yield">>

\* C22: a connection was closed after a failed write.
C22_WriteFailed ==
  \E j \in DOMAIN fattempts :
    fattempts[j].ops = <<"Dial", "WriteMsg", "Close">>


(***************************************************************************)
(* C23: concurrent calls of roundRobin.List.                               *)
(***************************************************************************)
RECURSIVE U32Plus(_, _)
U32Plus(c, k) == IF k = 0 THEN c ELSE U32Inc(U32Plus(c, k - 1))

\* The calls of List under way or returned, and those that have returned.
Started == {c \in Callers : lcalls[c].pc # "idle"}
Returned == {c \in Callers : lcalls[c].pc = "returned"}

\* No addition is lost: the K calls moved the counter by exactly K modulo
\* 2^32, and no two of them hold the same counter value.
NoLostIncrement ==
  /\ Started # {} => robin = U32Plus(lbase, Cardinality(Started))
  /\ \A c, d \in Started : c # d => lcalls[c].i # lcalls[d].i

DistinctHeads ==
  \A c, d \in Returned : c # d => lcalls[c].list[1] # lcalls[d].list[1]

\* C23 as stated: under any interleaving of concurrent roundRobin.List
\* calls no increment is lost, each call uses a distinct counter value,
\* and so K <= N concurrent calls on N proxies get K distinct heads.
C23_Claim ==
  (e.policy = "round_robin" /\ Len(e.proxies) >= 1) =>
    /\ NoLostIncrement
    /\ Cardinality(Started) <= Len(e.proxies) => DistinctHeads

\* C23, the part that holds: the additions are atomic, so the counter moves
\* by exactly K and the K calls hold K distinct counter values.
C23_Atomic ==
  (e.policy = "round_robin" /\ Len(e.proxies) >= 1) => NoLostIncrement

\* Two concurrent calls on three proxies, both returned, one after the
\* counter wrapped: distinct counter values, the same head.
C23_SameHead ==
  /\ e.policy = "round_robin"
  /\ Len(e.proxies) = 3
  /\ Returned = Callers
  /\ Cardinality(Callers) <= Len(e.proxies)
  /\ NoLostIncrement
  /\ ~DistinctHeads

\* Away from the wrap the conclusion holds: two concurrent calls that have
\* returned with distinct heads.
C23_DistinctReached ==
  /\ e.policy = "round_robin"
  /\ Len(e.proxies) >= 2
  /\ Returned = Callers
  /\ DistinctHeads

(***************************************************************************)
(* C24: the replies the engine writes to the client.                       *)
(***************************************************************************)
\* The paths of ServeDNS that end with a reply of the engine.
LocalHitPath ==
  ret.rcode = "Success" /\ attempts = <<>> /\ w # <<>> /\ w[1].kind = "auth" /\ LocalHit
TablePath ==
  ret.rcode = "Success" /\ attempts = <<>> /\ w # <<>> /\ w[1].kind = "auth" /\ ~LocalHit
ForwardSuccessPath ==
  ret.rcode = "Success" /\ attempts # <<>> /\ w # <<>> /\ w[1].kind = "reply"
FormErrPath ==
  ret.rcode = "Success" /\ attempts # <<>> /\ w # <<>> /\ w[1] = FormErr

\* C24: on every path of ServeDNS the engine writes at most one reply per
\* request: exactly one when it returns after a local hit, a table
\* redirect, a forwarded reply or a FormErr, none before it returns, and
\* none when it yields to the next plugin or returns ServerFailure.
C24_OneReply ==
  /\ Len(w) <= 1
  /\ pc # "done" => w = <<>>
  /\ pc = "done" =>
       /\ ret.rcode \in {"Success", "Next", "ServerFailure"}
       /\ ret.rcode = "Success" =>
            /\ Len(w) = 1
            /\ LocalHitPath \/ TablePath \/ ForwardSuccessPath \/ FormErrPath
       /\ ret.rcode \in {"Next", "ServerFailure"} => w = <<>>

\* A request answered after two attempts, the first failed: one reply.
C24_Witness ==
  /\ pc = "done"
  /\ ForwardSuccessPath
  /\ Len(attempts) >= 2
  /\ Len(w) = 1

\* Each of the other paths is taken.
C24_LocalHit == pc = "done" /\ LocalHitPath /\ Len(w) = 1
C24_Table == pc = "done" /\ TablePath /\ Len(w) = 1
C24_FormErr == pc = "done" /\ FormErrPath /\ Len(w) = 1
C24_Failure == pc = "done" /\ ret.rcode = "ServerFailure" /\ attempts # <<>> /\ w = <<>>
C24_Yielded == pc = "done" /\ ret.rcode = "Next" /\ w = <<>>

(***************************************************************************)
(* C25: who changes the failure counters.                                  *)
(***************************************************************************)
\* A step of ServeDNS or of Forward, connect included.
RequestStep == srvVars' # srvVars \/ fwdVars' # fwdVars

DownSet == {p \in DOMAIN fails : Down(p, e.maxUpstreamFails)}

\* C25: a failure counter is changed only by Check: every step of ServeDNS,
\* of Forward and of connect leaves every counter as it was, whatever the
\* outcome of the attempt, so no proxy becomes down or up by such a step.
C25_OnlyCheck ==
  [][ /\ RequestStep => (fails' = fails /\ DownSet' = DownSet)
      /\ fails' # fails => \E p \in ProxyIds : Check(p) ]_vars

\* A request failed on every attempt, on two proxies, and no counter moved:
\* no probe failed so far, no proxy is down.
C25_Witness ==
  /\ pc = "done"
  /\ ret.rcode = "ServerFailure"
  /\ Len(attempts) >= 2
  /\ \A j \in DOMAIN attempts : attempts[j].err # NoErr
  /\ \A p \in DOMAIN fails : fails[p] = U32(0) /\ streak[p] = U32(0)
  /\ DownSet = {}

\* The same for a call of Forward.
C25_ForwardFailed ==
  /\ fpc = "returned"
  /\ fattempts # <<>>
  /\ \A j \in DOMAIN fattempts : fattempts[j].err # NoErr
  /\ \A p \in DOMAIN fails : fails[p] = U32(0) /\ streak[p] = U32(0)

(***************************************************************************)
(* C26: the forwarding loop ends, and what it costs.                       *)
(***************************************************************************)
\* The request goes to the upstream proxies: past the filter, not answered
\* locally or from the table, and the engine has proxies.
ForwardCase ==
  Filtered /\ PassesFilter /\ ~LocalHit /\ ~InTable /\ e.proxies # <<>>

\* A proxy is contacted in one iteration only: its connect calls follow one
\* another, the second one after an EOF of the first, and there is no third.
OneIterationEach ==
  \A j, k \in DOMAIN attempts :
    (j < k /\ attempts[j].proxy = attempts[k].proxy) =>
      (k = j + 1 /\ attempts[j].err = EOF)

C26_Bounds ==
  ForwardCase =>
    /\ Len(attempts) <= 2 * Len(e.proxies)
    /\ Len(observed) <= Len(e.proxies)
    /\ OneIterationEach
    /\ pc = "done" =>
         /\ Len(attempts) >= 1
         /\ ret.rcode \in {"Success", "ServerFailure"}

\* C26: every forwarded request terminates: with N >= 1 proxies, whatever
\* the down states (which change concurrently) and the outcomes of the
\* attempts, ServeDNS makes at least one and at most 2*N connect calls,
\* contacts no proxy in more than one iteration of the loop, and then
\* returns one verdict.
C26_Terminates ==
  /\ []C26_Bounds
  /\ (ForwardCase /\ pc # "done") ~> (ForwardCase /\ pc = "done")

\* A request on two proxies that made the four connect calls it can make
\* (each proxy failed twice with EOF) and returned.
C26_Witness ==
  /\ ForwardCase
  /\ pc = "done"
  /\ Len(e.proxies) = 2
  /\ Len(attempts) = 4
  /\ ret.rcode = "ServerFailure"

\* A request whose proxies were all down and that made one connect call.
C26_OneCall ==
  /\ ForwardCase
  /\ pc = "done"
  /\ Len(e.proxies) = 2
  /\ AllObservedDown
  /\ Len(attempts) = 1

(***************************************************************************)
(* C27: how often a request consults the selection policy.                 *)
(***************************************************************************)
RoundRobin == e.policy = "round_robin" /\ e.proxies # <<>>

\* A call of ServeDNS consults the policy in one step only, the one that
\* leaves edge.go:228; under round robin that step adds one to the counter
\* and every other step of the call leaves the counter alone.
ServeDNSOnce ==
  (RoundRobin /\ srvVars' # srvVars) =>
    robin' = IF pc = "upstreams" THEN U32Inc(robin) ELSE robin

\* The same for a call of Forward, whose one step is the entry of the loop.
ForwardOnce ==
  (RoundRobin /\ fwdVars' # fwdVars) =>
    robin' = IF fpc = "enter" /\ ~freq.nil THEN U32Inc(robin) ELSE robin

\* C27 as stated: one ServeDNS call and one Forward call each consult the
\* configured policy once and advance the round-robin counter by exactly
\* one, also when all proxies are down and a last-resort proxy is picked.
C27_Claim == [][ServeDNSOnce /\ ForwardOnce]_vars

\* C27, the half that holds: a call of ServeDNS advances the counter by
\* exactly one, the last resort included (it uses a policy of its own).
C27_ServeDNSOnce == [][ServeDNSOnce]_vars

\* A call of Forward on two proxies under round robin saw both down and
\* picked its last resort by a second e.list(): two heads were dealt and
\* the proxy contacted is the second one.
C27_ForwardTwice ==
  /\ RoundRobin
  /\ Len(e.proxies) = 2
  /\ fpc = "connect"
  /\ Len(fobserved) = 2
  /\ \A j \in DOMAIN fobserved : fobserved[j].down
  /\ robin = U32(2)
  /\ heads = <<f.order[1], f.proxy>>

\* A call of ServeDNS in the same situation: one head was dealt.
C27_ServeDNSLastResort ==
  /\ RoundRobin
  /\ Len(e.proxies) = 2
  /\ pc = "connect"
  /\ AllObservedDown
  /\ robin = U32(1)
  /\ heads = <<fr.order[1]>>

(***************************************************************************)
(* C28: Forward on an engine without proxies.                              *)
(***************************************************************************)
\* A call of Forward on a non-nil engine with no proxy has ended.
EmptyForwardOver == fpc = "returned" /\ ~freq.nil /\ e.proxies = <<>>

NoHealthyReturned ==
  /\ out = [msg |-> NoMsg, err |-> errNoHealthy]
  /\ fattempts = <<>>
  /\ fobserved = <<>>

\* C28 as stated: Forward on a non-nil engine with an empty proxy list
\* returns the noHealthy error, contacts nothing and does not fail
\* abnormally, under the random and under the round-robin policy.
C28_Claim == EmptyForwardOver => NoHealthyReturned

\* C28, the half that holds: under the random policy the call returns the
\* noHealthy error and contacts nothing.
C28_RandomOnly ==
  (EmptyForwardOver /\ e.policy = "random") => NoHealthyReturned

\* Under round robin the call ended in the panic of roundRobin.List, the
\* counter already incremented, nothing contacted.
C28_DividedByZero ==
  /\ EmptyForwardOver
  /\ e.policy = "round_robin"
  /\ out = [msg |-> NoMsg, err |-> DivideByZero]
  /\ robin = U32(1)
  /\ fattempts = <<>>

\* Under the random policy the call returned the noHealthy error.
C28_RandomReturned ==
  /\ EmptyForwardOver
  /\ e.policy = "random"
  /\ NoHealthyReturned
=============================================================================
